---- MODULE Spec2Model ----
(***************************************************************************)
(* Ledger of src/app.py: the users and transactions tables of nexus.db,    *)
(* the Flask session of every client and the request handlers register,    *)
(* login, logout, dashboard, admin and transfer.  Every handler opens its  *)
(* own sqlite3 connection (get_db_connection), so a handler is a process   *)
(* whose steps are its SQL statements.  SELECT statements run outside a    *)
(* transaction and read the committed tables; the first UPDATE/INSERT of a *)
(* connection opens a transaction and takes the database's write lock,     *)
(* which conn.commit() releases; until then the changes are private to the *)
(* connection.  Amounts are whole numbers of currency units.               *)
(*                                                                         *)
(* Spec is every interleaving of the handlers of two clients within one    *)
(* second of the database clock; SpecClock adds the passing of seconds,    *)
(* SpecSerial handles one request at a time, SpecOpposite and SpecDisjoint *)
(* start from two transfers in flight (opposite directions between two     *)
(* accounts, and inside two disjoint pairs of accounts).                   *)
(***************************************************************************)
EXTENDS Integers, Sequences, FiniteSets, TLC

\* ---------------------------------------------------------------- bounds
MaxTotal  == 1      \* admin credits stop once this much money exists
MaxLog    == 3      \* requests that append stop once the log has this many rows
MaxTime   == 1      \* seconds of CURRENT_TIMESTAMP that the clock goes through

\* ------------------------------------------------------------- constants
NoRow    == 0       \* fetchone() returned None / 'user_id' not in session
NoSender == 0       \* sender_id NULL (None) of an admin credit
AdminId  == 1       \* id of the first row of users (AUTOINCREMENT)

Procs        == {1, 2}   \* clients, each with a session and one request in flight
AdminName    == "admin"
AdminPass    == "admin123"
AdminEmail   == "admin@example.com"
NoEmail      == "none"
Usernames    == {AdminName, "alice"}
Passwords    == {AdminPass, "pw"}
Emails       == {NoEmail, AdminEmail}
Descriptions == {"rent"}
AdminDescription == "Credit admin"
Amounts      == {0, 1, 2}   \* float(request.form.get('amount'))
UserIds      == 1..Cardinality(Usernames)

\* dates is the date column of transactions (dates[k] belongs to the row
\* transactions[k]), txDates the same column inside the open transaction,
\* now the database's CURRENT_TIMESTAMP, in whole seconds
VARIABLES users, transactions, txUsers, txTransactions, lock,
          session, pc, req, loc, flashed, dates, txDates, now

vars == <<users, transactions, txUsers, txTransactions, lock,
          session, pc, req, loc, flashed, dates, txDates, now>>

\* ------------------------------------------------------ handler-local state
NoSession == [user_id |-> NoRow, username |-> ""]
NoReq     == [receiver |-> "", user_id |-> NoRow, amount |-> 0, description |-> ""]
NoLoc     == [receiver |-> NoRow, balance |-> 0]

\* what the handler that answered last reported: the message it flashed or
\* the exception it raised ("none": login, logout and dashboard responses,
\* "denied": a request refused for missing fields, credentials or session)
Outcomes == {"none", "denied", "created", "duplicate", "invalid_amount",
             "not_found", "insufficient", "transferred", "credited", "error"}
TransferPending == {"t_select_sender", "t_debit", "t_credit", "t_insert", "t_commit"}
AdminPending    == {"a_update", "a_insert", "a_commit"}
EmailPending    == {"t_email", "a_email"}

\* what send_email does: the message is handed to the SMTP server, the
\* credentials are missing (return False), or smtplib raises (caught,
\* return False)
EmailResults == {"sent", "no_credentials", "smtp_error"}

\* ---------------------------------------------------------- SQL helpers
\* SELECT * FROM users WHERE username = ?  (id of the row, NoRow for None)
UserByName(us, name) ==
    IF \E i \in DOMAIN us : us[i].username = name
    THEN CHOOSE i \in DOMAIN us : us[i].username = name
    ELSE NoRow

\* UPDATE users SET balance = balance + ? WHERE id = ?  (no row: no change)
UpdateBalance(us, id, delta) ==
    [i \in DOMAIN us |->
        IF i = id THEN [us[i] EXCEPT !.balance = @ + delta] ELSE us[i]]

\* only the email is UNIQUE
UniqueViolationEmailOnly(us, username, email) ==
    \E i \in DOMAIN us : email # NoEmail /\ us[i].email = email

\* INSERT INTO users (username, email, password): the UNIQUE constraints
UniqueViolation(us, username, email) ==
    \E i \in DOMAIN us :
        \/ us[i].username = username
        \/ email # NoEmail /\ us[i].email = email

\* new accounts start with a welcome unit
NewUserWithBonus(username, email, password) ==
    [username |-> username, email |-> email, password |-> password, balance |-> 1]

\* the row register inserts: the next AUTOINCREMENT id, balance DEFAULT 0
NewUser(username, email, password) ==
    [username |-> username, email |-> email, password |-> password, balance |-> 0]

\* check_password_hash(generate_password_hash(stored), given)
CheckPassword(stored, given) == stored = given

\* the validation lets a zero amount through
InvalidAmountStrict(amount) == amount < 0

\* if amount <= 0: "Montant invalide."
InvalidAmount(amount) == amount <= 0

\* the check lets a sender overdraw by one unit
InsufficientFundsOffByOne(balance, amount) == balance < amount - 1

\* if sender['balance'] < amount: "Solde insuffisant."
InsufficientFunds(balance, amount) == balance < amount

\* the debit adds instead of subtracting
DebitSenderSignSlip(us, id, amount) == UpdateBalance(us, id, amount)

\* UPDATE users SET balance = balance - ? WHERE id = ?  (sender)
DebitSender(us, id, amount) == UpdateBalance(us, id, 0 - amount)

\* transfer forgets the credit
CreditReceiverLost(us, id, amount) == us

\* UPDATE users SET balance = balance + ? WHERE id = ?  (transfer, receiver)
CreditReceiver(us, id, amount) == UpdateBalance(us, id, amount)

\* UPDATE users SET balance = balance + ? WHERE id = ?  (admin)
CreditAccount(us, id, amount) == UpdateBalance(us, id, amount)

\* the sender is taken from the form instead of the session
TransferRecordFormSender(sender_id, receiver_id, amount, description) ==
    [sender_id |-> receiver_id, receiver_id |-> receiver_id,
     amount |-> amount, description |-> description]

\* the row transfer inserts; its id is its position in the table
TransferRecord(sender_id, receiver_id, amount, description) ==
    [sender_id |-> sender_id, receiver_id |-> receiver_id,
     amount |-> amount, description |-> description]

\* the credit is logged as sent by the admin account
AdminRecordFromAdmin(user_id, amount) ==
    [sender_id |-> AdminId, receiver_id |-> user_id,
     amount |-> amount, description |-> AdminDescription]

\* the row admin inserts: sender_id None
AdminRecord(user_id, amount) ==
    [sender_id |-> NoSender, receiver_id |-> user_id,
     amount |-> amount, description |-> AdminDescription]

\* the insert reuses the id of the newest row (INSERT OR REPLACE)
InsertRowReplace(log, row) ==
    IF log = <<>> THEN <<row>> ELSE [log EXCEPT ![Len(log)] = row]

\* INSERT INTO transactions: the row gets the next AUTOINCREMENT id, which
\* is its position in the table
InsertRow(log, row) == Append(log, row)

\* SELECT * FROM transactions WHERE sender_id = ? OR receiver_id = ?
HistoryOf(log, uid) ==
    {k \in DOMAIN log : log[k].sender_id = uid \/ log[k].receiver_id = uid}

\* ... ORDER BY date DESC: the rows ids in every order the sort may return
\* them in; rows of the same second come in no specified order
OrderByDateDesc(ids, ds) ==
    {h \in [1..Cardinality(ids) -> ids] :
        /\ \A i, j \in DOMAIN h : i # j => h[i] # h[j]
        /\ \A i, j \in DOMAIN h : i < j => ds[h[i]] >= ds[h[j]]}

\* --------------------------------------------------------------- state
Init ==
    /\ users = <<[username |-> AdminName, email |-> AdminEmail,
                  password |-> AdminPass, balance |-> 0]>>
    /\ transactions = <<>>
    /\ txUsers = users
    /\ txTransactions = transactions
    /\ lock = 0
    /\ session = [p \in Procs |-> NoSession]
    /\ pc = [p \in Procs |-> "idle"]
    /\ req = [p \in Procs |-> NoReq]
    /\ loc = [p \in Procs |-> NoLoc]
    /\ flashed = "none"
    /\ dates = <<>>
    /\ txDates = dates
    /\ now = 0

RECURSIVE SumBalances(_, _)
SumBalances(us, n) == IF n = 0 THEN 0 ELSE us[n].balance + SumBalances(us, n - 1)
TotalBalance(us) == SumBalances(us, Len(us))

RECURSIVE SumAmounts(_)
SumAmounts(S) ==
    IF S = {} THEN 0
    ELSE LET q == CHOOSE x \in S : TRUE IN req[q].amount + SumAmounts(S \ {q})

\* the model stops taking requests that would grow the tables past the bounds
Writers == {q \in Procs : pc[q] \in TransferPending \cup AdminPending}
CanAppend == Len(transactions) + Cardinality(Writers) < MaxLog
CanCredit(amount) ==
    TotalBalance(users) + SumAmounts({q \in Procs : pc[q] \in AdminPending}) + amount
        <= MaxTotal

LoggedIn(p) == session[p].user_id # NoRow

\* the handler returns its response
Finish(p, outcome) ==
    /\ pc' = [pc EXCEPT ![p] = "idle"]
    /\ flashed' = outcome
    /\ req' = [req EXCEPT ![p] = NoReq]
    /\ loc' = [loc EXCEPT ![p] = NoLoc]

Goto(p, label) ==
    /\ pc' = [pc EXCEPT ![p] = label]
    /\ UNCHANGED flashed

DbUnchanged ==
    UNCHANGED <<users, transactions, txUsers, txTransactions, lock,
                dates, txDates, now>>

\* the commit publishes the changes and keeps the write lock
CommitTxKeepsLock ==
    /\ users' = txUsers
    /\ transactions' = txTransactions
    /\ dates' = txDates
    /\ UNCHANGED <<txUsers, txTransactions, txDates, now, lock>>

\* conn.commit(): the connection's changes become the tables, the lock is freed
CommitTx ==
    /\ users' = txUsers
    /\ transactions' = txTransactions
    /\ dates' = txDates
    /\ lock' = 0
    /\ UNCHANGED <<txUsers, txTransactions, txDates, now>>

\* ------------------------------------------------------------- register
Register(p, username, password, email) ==
    /\ pc[p] = "idle"
    /\ lock = 0
    /\ IF username = "" \/ password = ""
       THEN /\ Finish(p, "denied")
            /\ DbUnchanged
       ELSE IF UniqueViolation(users, username, email)
       THEN /\ Finish(p, "duplicate")
            /\ DbUnchanged
       ELSE /\ users' = Append(users, NewUser(username, email, password))
            /\ txUsers' = users'
            /\ Finish(p, "created")
            /\ UNCHANGED <<transactions, txTransactions, lock, dates, txDates, now>>
    /\ UNCHANGED session

\* ---------------------------------------------------------------- login
Login(p, username, password) ==
    /\ pc[p] = "idle"
    /\ LET user == UserByName(users, username) IN
       IF user # NoRow /\ CheckPassword(users[user].password, password)
       THEN /\ session' = [session EXCEPT ![p] =
                             [user_id |-> user, username |-> users[user].username]]
            /\ Finish(p, "none")
       ELSE /\ Finish(p, "denied")
            /\ UNCHANGED session
    /\ DbUnchanged

\* --------------------------------------------------------------- logout
Logout(p) ==
    /\ pc[p] = "idle"
    /\ session' = [session EXCEPT ![p] = NoSession]
    /\ Finish(p, "none")
    /\ DbUnchanged

\* ------------------------------------------------------------ dashboard
\* session check, then SELECT * FROM users WHERE id = ?
DashboardUser(p) ==
    /\ pc[p] = "idle"
    /\ IF ~LoggedIn(p)
       THEN Finish(p, "none")
       ELSE /\ Goto(p, "d_transactions")
            /\ loc' = [loc EXCEPT ![p] =
                         [NoLoc EXCEPT !.balance = users[session[p].user_id].balance]]
            /\ req' = [req EXCEPT ![p] = NoReq]
    /\ DbUnchanged
    /\ UNCHANGED session

\* what render_template('dashboard.html', ...) is given
DashboardView(p) ==
    [user_balance |-> loc[p].balance,
     transactions |-> HistoryOf(transactions, session[p].user_id)]

\* the transactions list the template may be given: the rows of the view in
\* the order of ORDER BY date DESC
DashboardRows(p) == OrderByDateDesc(DashboardView(p).transactions, dates)

\* SELECT * FROM transactions WHERE sender_id = ? OR receiver_id = ?
\* ORDER BY date DESC, render
DashboardTransactions(p) ==
    /\ pc[p] = "d_transactions"
    /\ DashboardView(p).transactions \subseteq DOMAIN transactions
    /\ DashboardRows(p) # {}
    /\ Finish(p, "none")
    /\ DbUnchanged
    /\ UNCHANGED session

\* ------------------------------------------------------------- transfer
\* session check, form parsing, amount validation, then
\* receiver = SELECT * FROM users WHERE username = ?
TransferRequest(p, receiver, amount, description) ==
    /\ pc[p] = "idle"
    /\ IF ~LoggedIn(p)
       THEN Finish(p, "denied")
       ELSE IF InvalidAmount(amount)
       THEN Finish(p, "invalid_amount")
       ELSE /\ CanAppend
            /\ Goto(p, "t_select_sender")
            /\ req' = [req EXCEPT ![p] =
                         [NoReq EXCEPT !.receiver = receiver, !.amount = amount,
                                       !.description = description]]
            /\ loc' = [loc EXCEPT ![p] =
                         [NoLoc EXCEPT !.receiver = UserByName(users, receiver)]]
    /\ DbUnchanged
    /\ UNCHANGED session

\* what the handler does with the two rows it has read
TransferCheck(receiver, balance, amount) ==
    IF receiver = NoRow THEN "not_found"
    ELSE IF InsufficientFunds(balance, amount) THEN "insufficient"
    ELSE "t_debit"

\* sender = SELECT * FROM users WHERE id = ?, then the two checks
TransferSelectSender(p) ==
    /\ pc[p] = "t_select_sender"
    /\ LET balance == users[session[p].user_id].balance
           next == TransferCheck(loc[p].receiver, balance, req[p].amount) IN
       IF next = "t_debit"
       THEN /\ Goto(p, next)
            /\ loc' = [loc EXCEPT ![p].balance = balance]
            /\ UNCHANGED req
       ELSE Finish(p, next)
    /\ UNCHANGED session
    /\ DbUnchanged

\* the connection is in autocommit mode: the debit is in the table at once
TransferDebitAutocommit(p) ==
    /\ pc[p] = "t_debit"
    /\ lock = 0
    /\ lock' = p
    /\ users' = DebitSender(users, session[p].user_id, req[p].amount)
    /\ txUsers' = users'
    /\ Goto(p, "t_credit")
    /\ UNCHANGED <<transactions, txTransactions, session, req, loc,
                   dates, txDates, now>>

\* UPDATE users SET balance = balance - ? WHERE id = sender_id (opens the
\* transaction: the connection takes the write lock)
TransferDebit(p) ==
    /\ pc[p] = "t_debit"
    /\ lock = 0
    /\ lock' = p
    /\ txUsers' = DebitSender(users, session[p].user_id, req[p].amount)
    /\ Goto(p, "t_credit")
    /\ UNCHANGED <<users, transactions, txTransactions, session, req, loc,
                   dates, txDates, now>>

\* UPDATE users SET balance = balance + ? WHERE id = receiver['id']
TransferCredit(p) ==
    /\ pc[p] = "t_credit"
    /\ lock = p
    /\ txUsers' = CreditReceiver(txUsers, loc[p].receiver, req[p].amount)
    /\ Goto(p, "t_insert")
    /\ UNCHANGED <<users, transactions, txTransactions, lock, session, req, loc,
                   dates, txDates, now>>

\* INSERT INTO transactions (sender_id, receiver_id, amount, description)
TransferInsert(p) ==
    /\ pc[p] = "t_insert"
    /\ lock = p
    /\ txTransactions' = InsertRow(txTransactions,
           TransferRecord(session[p].user_id, loc[p].receiver,
                          req[p].amount, req[p].description))
    /\ txDates' = Append(txDates, now)
    /\ Goto(p, "t_commit")
    /\ UNCHANGED <<users, transactions, txUsers, lock, session, req, loc, dates, now>>

\* conn.commit(); conn.close()
TransferCommit(p) ==
    /\ pc[p] = "t_commit"
    /\ lock = p
    /\ CommitTx
    /\ Goto(p, "t_email")
    /\ req' = [req EXCEPT ![p] = NoReq]
    /\ loc' = [loc EXCEPT ![p] = NoLoc]
    /\ UNCHANGED session

\* ---------------------------------------------------------------- admin
\* session checks, form parsing, amount validation
AdminRequest(p, user_id, amount) ==
    /\ pc[p] = "idle"
    /\ IF ~LoggedIn(p) \/ session[p].username # AdminName
       THEN Finish(p, "denied")
       ELSE IF InvalidAmount(amount)
       THEN Finish(p, "invalid_amount")
       ELSE /\ CanAppend
            /\ CanCredit(amount)
            /\ Goto(p, "a_update")
            /\ req' = [req EXCEPT ![p] =
                         [NoReq EXCEPT !.user_id = user_id, !.amount = amount]]
            /\ loc' = [loc EXCEPT ![p] = NoLoc]
    /\ DbUnchanged
    /\ UNCHANGED session

\* UPDATE users SET balance = balance + ? WHERE id = ?
AdminUpdate(p) ==
    /\ pc[p] = "a_update"
    /\ lock = 0
    /\ lock' = p
    /\ txUsers' = CreditAccount(users, req[p].user_id, req[p].amount)
    /\ Goto(p, "a_insert")
    /\ UNCHANGED <<users, transactions, txTransactions, session, req, loc,
                   dates, txDates, now>>

\* INSERT INTO transactions (sender_id, receiver_id, amount, description)
AdminInsert(p) ==
    /\ pc[p] = "a_insert"
    /\ lock = p
    /\ txTransactions' = InsertRow(txTransactions,
                                   AdminRecord(req[p].user_id, req[p].amount))
    /\ txDates' = Append(txDates, now)
    /\ Goto(p, "a_commit")
    /\ UNCHANGED <<users, transactions, txUsers, lock, session, req, loc, dates, now>>

\* conn.commit(); conn.close()
AdminCommit(p) ==
    /\ pc[p] = "a_commit"
    /\ lock = p
    /\ CommitTx
    /\ Goto(p, "a_email")
    /\ req' = [req EXCEPT ![p] = NoReq]
    /\ loc' = [loc EXCEPT ![p] = NoLoc]
    /\ UNCHANGED session

\* -------------------------------------------------------- notification
\* the handler lets an SMTP failure through
EmailResponseRaises(result, message) ==
    IF result = "smtp_error" THEN "error" ELSE message

\* send_email returns True or False, the handler ignores which and flashes
\* its success message
EmailResponse(result, message) == message

\* send_email(...) after the commit, then "Transfert effectue." or
\* "Compte credite."
SendEmail(p, result) ==
    /\ pc[p] \in EmailPending
    /\ Finish(p, EmailResponse(result,
                 IF pc[p] = "t_email" THEN "transferred" ELSE "credited"))
    /\ DbUnchanged
    /\ UNCHANGED session

\* ------------------------------------------------------ storage failures
\* the UPDATE that opens the transaction finds the database locked by
\* another connection until the busy timeout: sqlite3.OperationalError
Busy(p) ==
    /\ pc[p] \in {"t_debit", "a_update"}
    /\ lock \notin {0, p}
    /\ Finish(p, "error")
    /\ DbUnchanged
    /\ UNCHANGED session

\* a statement or the commit raises inside the transaction: the handler
\* ends without commit and the connection is dropped, which rolls back
Rollback(p) ==
    /\ pc[p] \in {"t_credit", "t_insert", "t_commit", "a_insert", "a_commit"}
    /\ lock = p
    /\ txUsers' = users
    /\ txTransactions' = transactions
    /\ txDates' = dates
    /\ lock' = 0
    /\ Finish(p, "error")
    /\ UNCHANGED <<users, transactions, session, dates, now>>

\* ----------------------------------------------------------------- next
Next ==
    \E p \in Procs :
        \/ \E u \in Usernames \cup {""}, e \in Emails : Register(p, u, "pw", e)
        \/ Register(p, "alice", "", NoEmail)
        \/ \E u \in Usernames, w \in Passwords : Login(p, u, w)
        \/ Logout(p)
        \/ DashboardUser(p)
        \/ DashboardTransactions(p)
        \/ \E r \in Usernames, a \in Amounts, d \in Descriptions :
               TransferRequest(p, r, a, d)
        \/ TransferSelectSender(p)
        \/ TransferDebit(p)
        \/ TransferCredit(p)
        \/ TransferInsert(p)
        \/ TransferCommit(p)
        \/ \E i \in UserIds, a \in Amounts : AdminRequest(p, i, a)
        \/ AdminUpdate(p)
        \/ AdminInsert(p)
        \/ AdminCommit(p)
        \/ \E m \in EmailResults : SendEmail(p, m)
        \/ Busy(p)
        \/ Rollback(p)

\* the requests of one second of the database clock
Spec == Init /\ [][Next]_vars

\* ---------------------------------------------------------------- clock
\* a second passes: CURRENT_TIMESTAMP has a resolution of one second
Tick ==
    /\ now < MaxTime
    /\ now' = now + 1
    /\ UNCHANGED <<users, transactions, txUsers, txTransactions, lock,
                   session, pc, req, loc, flashed, dates, txDates>>

NextClock == Next \/ Tick

\* the requests of MaxTime + 1 seconds
SpecClock == Init /\ [][NextClock]_vars

TypeOK ==
    /\ lock \in {0} \cup Procs
    /\ \A p \in Procs : pc[p] \in {"idle", "d_transactions"}
                                   \cup TransferPending \cup AdminPending
                                   \cup EmailPending
    /\ flashed \in Outcomes
    /\ lock = 0 => txUsers = users /\ txTransactions = transactions /\ txDates = dates
    /\ now \in 0..MaxTime
    /\ Len(dates) = Len(transactions) /\ Len(txDates) = Len(txTransactions)
    /\ \A k \in DOMAIN dates : dates[k] \in 0..now

\* ------------------------------------------------- one request at a time
\* no other client's request is being handled
Quiet(p) == \A q \in Procs \ {p} : pc[q] = "idle"

\* a client's request is handled from its first statement to its answer
\* while no other request is being handled (so no storage timeout)
NextSerial ==
    \E p \in Procs :
        \/ Quiet(p) /\ \E u \in Usernames \cup {""}, e \in Emails : Register(p, u, "pw", e)
        \/ Quiet(p) /\ Register(p, "alice", "", NoEmail)
        \/ Quiet(p) /\ \E u \in Usernames, w \in Passwords : Login(p, u, w)
        \/ Quiet(p) /\ Logout(p)
        \/ Quiet(p) /\ DashboardUser(p)
        \/ Quiet(p) /\ DashboardTransactions(p)
        \/ Quiet(p) /\ \E r \in Usernames, a \in Amounts, d \in Descriptions :
                           TransferRequest(p, r, a, d)
        \/ Quiet(p) /\ TransferSelectSender(p)
        \/ Quiet(p) /\ TransferDebit(p)
        \/ Quiet(p) /\ TransferCredit(p)
        \/ Quiet(p) /\ TransferInsert(p)
        \/ Quiet(p) /\ TransferCommit(p)
        \/ Quiet(p) /\ \E i \in UserIds, a \in Amounts : AdminRequest(p, i, a)
        \/ Quiet(p) /\ AdminUpdate(p)
        \/ Quiet(p) /\ AdminInsert(p)
        \/ Quiet(p) /\ AdminCommit(p)
        \/ Quiet(p) /\ \E m \in EmailResults : SendEmail(p, m)
        \/ Quiet(p) /\ Rollback(p)

SpecSerial == Init /\ [][NextSerial]_vars

\* ------------------------------------------- two opposite transfers
\* balances the two accounts of the scenario may start with
OppositeBalances == 1..(MaxTotal + 1)

\* admin (client 1) and alice (client 2) hold a and b, credited by the admin,
\* and each has posted a transfer of x <= a, b to the other: both handlers
\* are past the session check, the validation and the SELECT of the receiver
InitOpposite ==
    \E x \in Amounts \ {0} : \E a, b \in {c \in OppositeBalances : c >= x} :
        /\ users = <<[username |-> AdminName, email |-> AdminEmail,
                      password |-> AdminPass, balance |-> a],
                     [username |-> "alice", email |-> NoEmail,
                      password |-> "pw", balance |-> b]>>
        /\ transactions = <<AdminRecord(1, a), AdminRecord(2, b)>>
        /\ dates = <<0, 0>>
        /\ txUsers = users
        /\ txTransactions = transactions
        /\ txDates = dates
        /\ lock = 0
        /\ now = 0
        /\ session = [p \in Procs |-> [user_id |-> p, username |-> users[p].username]]
        /\ pc = [p \in Procs |-> "t_select_sender"]
        /\ req = [p \in Procs |->
                    [NoReq EXCEPT !.receiver = users[3 - p].username, !.amount = x,
                                  !.description = "rent"]]
        /\ loc = [p \in Procs |-> [NoLoc EXCEPT !.receiver = 3 - p]]
        /\ flashed = "none"

\* the next statement of p's transfer handler
TransferStep(p) ==
    \/ TransferSelectSender(p)
    \/ TransferDebit(p)
    \/ TransferCredit(p)
    \/ TransferInsert(p)
    \/ TransferCommit(p)
    \/ \E m \in EmailResults : SendEmail(p, m)

NextTransfers == \E p \in Procs : TransferStep(p)

\* both handlers run in their own thread and no statement fails: a handler
\* that can execute its next statement eventually does (a handler waiting for
\* the write lock gets it before its busy timeout once the holder commits)
SpecOpposite ==
    InitOpposite /\ [][NextTransfers]_vars /\ \A p \in Procs : WF_vars(TransferStep(p))

\* --------------------------------- transfers between disjoint pairs
\* four accounts; client p transfers inside the pair {2p - 1, 2p}
DisjointNames == <<AdminName, "alice", "bob", "carol">>
DisjointPair(p) == {2 * p - 1, 2 * p}
DisjointPeer(id) == IF id % 2 = 1 THEN id + 1 ELSE id - 1
\* the amount of client p's transfer
DisjointAmount(p) == p

\* the admin credits that gave every account i its balance bal[i]
RECURSIVE CreditsOf(_, _)
CreditsOf(bal, n) ==
    IF n = 0 THEN <<>>
    ELSE CreditsOf(bal, n - 1)
           \o (IF bal[n] > 0 THEN <<AdminRecord(n, bal[n])>> ELSE <<>>)

\* every client is logged in as one account of its pair and has posted a
\* transfer to the other account of the pair; the balances are any the
\* admin may have credited
InitDisjoint ==
    \E bal \in [DOMAIN DisjointNames -> 0..(MaxTotal + 1)] :
    \E sender \in [Procs -> DOMAIN DisjointNames] :
        /\ \A p \in Procs : sender[p] \in DisjointPair(p)
        /\ users = [i \in DOMAIN DisjointNames |->
                      [username |-> DisjointNames[i],
                       email |-> IF i = AdminId THEN AdminEmail ELSE NoEmail,
                       password |-> IF i = AdminId THEN AdminPass ELSE "pw",
                       balance |-> bal[i]]]
        /\ transactions = CreditsOf(bal, Len(DisjointNames))
        /\ dates = [k \in DOMAIN transactions |-> 0]
        /\ txUsers = users
        /\ txTransactions = transactions
        /\ txDates = dates
        /\ lock = 0
        /\ now = 0
        /\ session = [p \in Procs |->
                        [user_id |-> sender[p], username |-> users[sender[p]].username]]
        /\ pc = [p \in Procs |-> "t_select_sender"]
        /\ req = [p \in Procs |->
                    [NoReq EXCEPT !.receiver = users[DisjointPeer(sender[p])].username,
                                  !.amount = DisjointAmount(p),
                                  !.description = "rent"]]
        /\ loc = [p \in Procs |-> [NoLoc EXCEPT !.receiver = DisjointPeer(sender[p])]]
        /\ flashed = "none"

\* the two handlers interleave in every way; no statement fails
SpecDisjoint == InitDisjoint /\ [][NextTransfers]_vars

\* ======================================================= ledger properties
RECURSIVE Received(_, _, _)
Received(log, id, n) ==
    IF n = 0 THEN 0
    ELSE (IF log[n].receiver_id = id THEN log[n].amount ELSE 0) + Received(log, id, n - 1)

RECURSIVE Sent(_, _, _)
Sent(log, id, n) ==
    IF n = 0 THEN 0
    ELSE (IF log[n].sender_id = id THEN log[n].amount ELSE 0) + Sent(log, id, n - 1)

\* p takes the step that ends its transfer with conn.commit()
TransferCommits(p) == pc[p] = "t_commit" /\ pc'[p] = "t_email"

\* p takes the step that ends its admin credit with conn.commit()
AdminCommits(p) == pc[p] = "a_commit" /\ pc'[p] = "a_email"

\* C1: every account's balance is >= 0 in every reachable state, also while
\* transfers and admin credits are handled concurrently.
NonNegativity == \A i \in DOMAIN users : users[i].balance >= 0

\* C2: no step other than a step of an admin-credit handler changes the sum of
\* all balances: transfers, succeeding or failing, in any interleaving,
\* conserve the total.
Conservation ==
    [][(\A p \in Procs : pc[p] \in AdminPending => pc'[p] = pc[p])
         => TotalBalance(users') = TotalBalance(users)]_vars

\* a transfer between two different accounts has been committed
ConservationWitness ==
    /\ flashed = "transferred"
    /\ \E k \in DOMAIN transactions :
           /\ transactions[k].sender_id # NoSender
           /\ transactions[k].sender_id # transactions[k].receiver_id

\* C3: every account's balance is the sum of the amounts of the records it
\* received minus the sum of the amounts of the records it sent.
LogCompleteness ==
    \A i \in DOMAIN users :
        users[i].balance = Received(transactions, i, Len(transactions))
                             - Sent(transactions, i, Len(transactions))

\* the checks of the request p is handling say that it must fail
FailedCheck(p) ==
    \/ req[p].amount <= 0
    \/ /\ pc[p] \in TransferPending
       /\ \/ loc[p].receiver = NoRow
          \/ /\ pc[p] # "t_select_sender"
             /\ loc[p].balance < req[p].amount

\* C4: a Transfer or AdminCredit that fails (amount <= 0, unknown receiver,
\* sender balance below the amount) changes no balance and appends no
\* record: a step that changes the tables answers no failure and is
\* taken by no handler whose request failed one of these checks (it is the
\* commit of a handler that goes on to its notification, or a registration).
AtomicityOnFailure ==
    [][(users' # users \/ transactions' # transactions)
         => /\ flashed' # flashed =>
                  flashed' \notin {"invalid_amount", "not_found", "insufficient"}
            /\ \A p \in Procs : pc'[p] # pc[p] =>
                  ~FailedCheck(p) /\ pc'[p] \in EmailPending
            /\ (\A p \in Procs : pc'[p] = pc[p]) => flashed' = "created"]_vars

\* a transfer has just failed for insufficient funds while the sender holds
\* money and the log is not empty
AtomicityWitness ==
    /\ flashed = "insufficient"
    /\ transactions # <<>>
    /\ \E p \in Procs : LoggedIn(p) /\ users[session[p].user_id].balance > 0

\* C5: a transfer whose receiver is the sender's own account fails: it
\* appends no record, so no record has the same sender and receiver.
SameAccountTransferFails ==
    \A k \in DOMAIN transactions :
        transactions[k].sender_id # transactions[k].receiver_id

\* C6: an admin credit addressed to an id that is no account fails: it
\* appends no record, so every record's receiver is an account.
AdminCreditNeedsAccount ==
    \A k \in DOMAIN transactions : transactions[k].receiver_id \in DOMAIN users

\* the whole transfer handler run alone on the tables <<us, log>>
SerialTransfer(us, log, sender_id, receiver, amount, description) ==
    LET r == UserByName(us, receiver) IN
    IF InvalidAmount(amount) \/ TransferCheck(r, us[sender_id].balance, amount) # "t_debit"
    THEN <<us, log>>
    ELSE <<CreditReceiver(DebitSender(us, sender_id, amount), r, amount),
           Append(log, TransferRecord(sender_id, r, amount, description))>>

\* C7: concurrent operations leave what some serial execution leaves.
\* Writers are serialized by the write lock in the order of their commits,
\* so every committing transfer must leave the tables that the same
\* transfer run alone on the tables it commits to would leave: its balance
\* check is made on the balance its debit is applied to.
SerializableTransfers ==
    [][\A p \in Procs : TransferCommits(p) =>
          /\ loc[p].balance = users[session[p].user_id].balance
          /\ <<users', transactions'>> =
                 SerialTransfer(users, transactions, session[p].user_id,
                                req[p].receiver, req[p].amount, req[p].description)]_vars

\* the newest record of a non-empty history
Newest(log, H) == log[CHOOSE k \in H : \A m \in H : m <= k]

\* C8: the dashboard never shows some effects of a transfer without the
\* others: when the newest record of the history it renders is a transfer
\* from or to the user, that history is read from tables in which the user's
\* balance is the balance it renders (the balance read before includes the
\* transfer's debit or credit).
DashboardSeesWholeTransfers ==
    [][\A p \in Procs :
          ( /\ pc[p] = "d_transactions" /\ pc'[p] = "idle"
            /\ DashboardView(p).transactions # {}
            /\ LET last == Newest(transactions, DashboardView(p).transactions) IN
                 last.sender_id # NoSender /\ last.sender_id # last.receiver_id )
          => DashboardView(p).user_balance = users[session[p].user_id].balance]_vars

\* C9: a successful transfer between different accounts debits the sender by
\* exactly the amount, credits the receiver by exactly the amount, appends
\* exactly one record {sender, receiver, amount, description} and changes
\* no other balance, no other field and no existing record.
TransferEffect ==
    [][\A p \in Procs :
          (TransferCommits(p) /\ session[p].user_id # loc[p].receiver) =>
             /\ users' = [i \in DOMAIN users |->
                            IF i = session[p].user_id
                            THEN [users[i] EXCEPT !.balance = @ - req[p].amount]
                            ELSE IF i = loc[p].receiver
                            THEN [users[i] EXCEPT !.balance = @ + req[p].amount]
                            ELSE users[i]]
             /\ transactions' = Append(transactions,
                    [sender_id |-> session[p].user_id,
                     receiver_id |-> UserByName(users, req[p].receiver),
                     amount |-> req[p].amount,
                     description |-> req[p].description])]_vars

\* the latest response is a committed transfer between different accounts
TransferEffectWitness ==
    /\ flashed = "transferred"
    /\ transactions # <<>>
    /\ LET last == transactions[Len(transactions)] IN
         /\ last.sender_id # NoSender
         /\ last.sender_id # last.receiver_id
         /\ last.amount > 0

\* C10: a successful admin credit of an existing account raises that
\* account's balance by exactly the amount, appends exactly one record with
\* no sender, that receiver and that amount, and changes no other balance.
AdminCreditEffect ==
    [][\A p \in Procs :
          (AdminCommits(p) /\ req[p].user_id \in DOMAIN users) =>
             /\ users' = [i \in DOMAIN users |->
                            IF i = req[p].user_id
                            THEN [users[i] EXCEPT !.balance = @ + req[p].amount]
                            ELSE users[i]]
             /\ Len(transactions') = Len(transactions) + 1
             /\ SubSeq(transactions', 1, Len(transactions)) = transactions
             /\ LET last == transactions'[Len(transactions')] IN
                  /\ last.sender_id = NoSender
                  /\ last.receiver_id = req[p].user_id
                  /\ last.amount = req[p].amount]_vars

\* the latest response is a committed credit of an existing account
AdminCreditEffectWitness ==
    /\ flashed = "credited"
    /\ transactions # <<>>
    /\ LET last == transactions[Len(transactions)] IN
         /\ last.sender_id = NoSender
         /\ last.receiver_id \in DOMAIN users
         /\ users[last.receiver_id].balance >= last.amount

\* C11: Transfer(A, B, x) and Transfer(B, A, x) started concurrently while
\* both balances are >= x both complete, whatever the interleaving: from
\* some point on both handlers have answered, the balances of A and B are
\* the initial ones (the amounts the admin credited them with), and the log
\* has exactly two new records, one for each transfer.
OppositeTransfersComplete ==
    <>[]( /\ \A p \in Procs : pc[p] = "idle"
          /\ flashed = "transferred"
          /\ users[1].balance = transactions[1].amount
          /\ users[2].balance = transactions[2].amount
          /\ Len(transactions) = 4
          /\ {<<transactions[3].sender_id, transactions[3].receiver_id>>,
               <<transactions[4].sender_id, transactions[4].receiver_id>>}
                = {<<1, 2>>, <<2, 1>>}
          /\ transactions[3].amount = transactions[4].amount )

\* both opposite transfers have been committed and answered
OppositeTransfersWitness ==
    /\ \A p \in Procs : pc[p] = "idle" /\ session[p].user_id = p
    /\ Len(transactions) = 4
    /\ transactions[3].sender_id = transactions[4].receiver_id
    /\ transactions[4].sender_id = transactions[3].receiver_id
    /\ transactions[3].sender_id # transactions[3].receiver_id

\* what the admin has credited account id with
RECURSIVE Credited(_, _, _)
Credited(log, id, n) ==
    IF n = 0 THEN 0
    ELSE (IF log[n].sender_id = NoSender /\ log[n].receiver_id = id
          THEN log[n].amount ELSE 0) + Credited(log, id, n - 1)

\* the balances a transfer of x from s to r, run alone, leaves of bal
AloneTransfer(bal, s, r, x) ==
    IF bal[s] >= x
    THEN [i \in DOMAIN bal |->
            IF i = s THEN bal[i] - x ELSE IF i = r THEN bal[i] + x ELSE bal[i]]
    ELSE bal

\* C12: transfers between pairwise disjoint pairs of accounts leave, on
\* every interleaving of their statements, the balances that running them
\* one after the other leaves, in either order: once both handlers have
\* answered, the balances are those of client 1's transfer run alone and
\* then client 2's, and of client 2's and then client 1's, on the balances
\* the accounts started with (what the admin credited them).
DisjointTransfersAsSerial ==
    (\A p \in Procs : pc[p] = "idle") =>
        LET bal0 == [i \in DOMAIN users |->
                       Credited(transactions, i, Len(transactions))]
            Alone(bal, p) ==
                AloneTransfer(bal, session[p].user_id,
                              DisjointPeer(session[p].user_id), DisjointAmount(p))
            final == [i \in DOMAIN users |-> users[i].balance]
        IN /\ final = Alone(Alone(bal0, 1), 2)
           /\ final = Alone(Alone(bal0, 2), 1)

\* both handlers have answered: one transfer was committed inside each pair
DisjointTransfersWitness ==
    /\ \A p \in Procs : pc[p] = "idle"
    /\ Len(users) = Len(DisjointNames)
    /\ \A p \in Procs : \E k \in DOMAIN transactions :
           /\ transactions[k].sender_id = session[p].user_id
           /\ transactions[k].sender_id \in DisjointPair(p)
           /\ transactions[k].receiver_id = DisjointPeer(session[p].user_id)

\* C13: when a statement or the commit of a transfer fails after its first
\* balance update (between debit and credit, between credit and insert, or
\* at the commit), nothing of the transfer is persisted: until the handler
\* commits, none of its statements changes the committed balances, log or
\* dates, and the step in which it fails leaves them as they are and
\* discards the connection's changes.
FailedTransferPersistsNothing ==
    [][\A p \in Procs :
          /\ (pc[p] \in {"t_debit", "t_credit", "t_insert", "t_commit"}
                /\ pc'[p] # pc[p] /\ ~TransferCommits(p))
               => UNCHANGED <<users, transactions, dates>>
          /\ (pc[p] \in {"t_credit", "t_insert", "t_commit"} /\ pc'[p] = "idle")
               => /\ flashed' = "error"
                  /\ txUsers' = users /\ txTransactions' = transactions
                  /\ txDates' = dates]_vars

\* a transfer has just failed inside its transaction: every handler has
\* answered, the last answer is an error, and no client is the admin
FailedTransferWitness ==
    /\ flashed = "error"
    /\ \A p \in Procs : pc[p] = "idle" /\ session[p].username # AdminName
    /\ \E p \in Procs : LoggedIn(p) /\ users[session[p].user_id].balance > 0

\* C14: send_email runs for a transfer or an admin credit only after that
\* operation's commit and never for a failed operation: a handler reaches
\* its notification only by the step that commits its transaction, and the
\* success messages are flashed only by a handler leaving its notification.
\* Whatever send_email does (message sent, credentials missing, SMTP
\* exception), the step leaves the committed balances, log and dates
\* unchanged and the handler answers with its success message.
NotificationAfterCommit ==
    [][\A p \in Procs :
          /\ (pc'[p] \in EmailPending /\ pc[p] \notin EmailPending)
               => /\ pc[p] \in {"t_commit", "a_commit"}
                  /\ lock = p /\ lock' = 0
                  /\ users' = txUsers /\ transactions' = txTransactions
          /\ (pc[p] \in EmailPending /\ pc'[p] # pc[p])
               => /\ UNCHANGED <<users, transactions, dates>>
                  /\ pc'[p] = "idle"
                  /\ flashed' = IF pc[p] = "t_email" THEN "transferred" ELSE "credited"
          /\ (pc[p] \notin EmailPending /\ pc'[p] = "idle" /\ pc[p] # "idle")
               => flashed' \notin {"transferred", "credited"}]_vars

\* two operations have been committed and the handler of the last one has
\* answered after its notification
NotificationWitness ==
    /\ flashed \in {"transferred", "credited"}
    /\ \A p \in Procs : pc[p] = "idle"
    /\ Len(transactions) >= 2

\* no two accounts have the same handle (their ids are their positions)
UniqueHandles(us) ==
    \A i, j \in DOMAIN us : us[i].username = us[j].username => i = j

\* the accounts of us are still in vs, with their ids and handles
NoAccountDeleted(us, vs) ==
    /\ Len(vs) >= Len(us)
    /\ \A i \in DOMAIN us : vs[i].username = us[i].username

\* the step adds exactly one account, with the handle, balance 0 and a
\* fresh id, and leaves the other accounts as they are
CreatesAccount(username) ==
    /\ users' = Append(users, users'[Len(users')])
    /\ users'[Len(users')].username = username
    /\ users'[Len(users')].balance = 0
    /\ flashed' = "created"

\* C15 as stated: a registration with an unused handle creates exactly one
\* account with balance 0 and a fresh id; one with a handle that exists
\* fails and creates or changes no account; no two accounts share a handle
\* or an id and no account is ever deleted.
RegistrationByHandle ==
    [][/\ \A p \in Procs, u \in Usernames, e \in Emails :
             Register(p, u, "pw", e) =>
                IF UserByName(users, u) = NoRow
                THEN CreatesAccount(u)
                ELSE users' = users /\ flashed' = "duplicate"
       /\ NoAccountDeleted(users, users')
       /\ UniqueHandles(users')]_vars

\* C15, amended: a registration with a handle and a password that are not
\* empty, a handle no account has and an email that is absent or that no
\* account has creates exactly one account with balance 0 and a fresh id;
\* every other registration (handle in use, email in use, empty handle or
\* password) creates or changes no account; no two accounts share a handle
\* or an id and no account is ever deleted.
RegistrationByHandleAndEmail ==
    [][/\ \A p \in Procs, u \in Usernames \cup {""}, w \in {"pw", ""}, e \in Emails :
             Register(p, u, w, e) =>
                IF /\ u # "" /\ w # ""
                   /\ \A i \in DOMAIN users : users[i].username # u
                   /\ e = NoEmail \/ \A i \in DOMAIN users : users[i].email # e
                THEN CreatesAccount(u)
                ELSE users' = users /\ flashed' \in {"duplicate", "denied"}
       /\ NoAccountDeleted(users, users')
       /\ UniqueHandles(users')]_vars

\* alice has registered, and the last registration was refused as a duplicate
RegistrationWitness ==
    /\ Len(users) = 2
    /\ users[2].username = "alice" /\ users[2].balance = 0
    /\ flashed = "duplicate"

\* C16: the sender of every committed transfer is the authenticated session
\* user.  A client's session becomes that of an account only by a login
\* with that account's handle and password; a client without a session
\* (never logged in, or logged out) has no handler past its session check,
\* so its requests change no balance and no record; and every step that
\* changes a balance or the log is the commit of a logged-in client's
\* handler, whose transfer record has that client's account as its sender.
SenderIsSessionUser ==
    [][/\ \A p \in Procs :
             (session'[p] # session[p] /\ session'[p] # NoSession) =>
                \E u \in Usernames, w \in Passwords :
                    /\ Login(p, u, w)
                    /\ session'[p].user_id \in DOMAIN users
                    /\ session'[p].username = u
                    /\ users[session'[p].user_id].username = u
                    /\ users[session'[p].user_id].password = w
       /\ \A p \in Procs : ~LoggedIn(p) => pc[p] = "idle" /\ pc'[p] = "idle"
       /\ ( \/ transactions' # transactions
            \/ \E i \in DOMAIN users : users'[i].balance # users[i].balance )
            => \E p \in Procs :
                  /\ LoggedIn(p)
                  /\ TransferCommits(p) \/ AdminCommits(p)
                  /\ transactions' # transactions =>
                        /\ Len(transactions') = Len(transactions) + 1
                        /\ transactions'[Len(transactions')].sender_id
                              = IF TransferCommits(p) THEN session[p].user_id
                                ELSE NoSender]_vars

\* a transfer is in the log, its sender has logged out, and the last
\* request was refused
SenderIsSessionUserWitness ==
    /\ flashed = "denied"
    /\ \A p \in Procs : session[p] = NoSession /\ pc[p] = "idle"
    /\ \E k \in DOMAIN transactions : transactions[k].sender_id # NoSender

\* C17: a transfer with amount > 0 and an existing receiver, handled while
\* no other request is, fails for insufficient funds exactly when the
\* sender's balance is strictly less than the amount, and a transfer of
\* exactly the sender's whole balance leaves the sender at 0.
WholeBalanceTransfer ==
    [][\A p \in Procs :
          /\ (pc[p] = "t_select_sender" /\ pc'[p] # pc[p] /\ loc[p].receiver # NoRow)
               => /\ pc'[p] = "idle"
                       <=> users[session[p].user_id].balance < req[p].amount
                  /\ pc'[p] = "idle" => flashed' = "insufficient"
          /\ (TransferCommits(p) /\ req[p].amount = users[session[p].user_id].balance)
               => users'[session[p].user_id].balance = 0]_vars

\* C18: the transaction log is append-only.  No step deletes or modifies a
\* record: every record keeps its id (its position) and its fields, and
\* its date.  A step that changes the log appends exactly one record, whose
\* id is the log's length plus one and so greater than every id in the log:
\* ids are unique.
LogAppendOnly ==
    [][/\ Len(transactions') \in {Len(transactions), Len(transactions) + 1}
       /\ \A k \in DOMAIN transactions :
             transactions'[k] = transactions[k] /\ dates'[k] = dates[k]
       /\ DOMAIN dates' = DOMAIN transactions']_vars

\* the log holds an admin credit followed by a transfer
LogAppendOnlyWitness ==
    /\ Len(transactions) >= 2
    /\ transactions[1].sender_id = NoSender
    /\ transactions[Len(transactions)].sender_id # NoSender
    /\ lock = 0

\* C19: the history the dashboard shows for an account holds exactly the
\* committed records in which the account is sender or receiver, newest
\* first: a record committed later (a greater id) never comes after one
\* committed earlier, also when both were committed in the same second.
\* (Stated for the dashboards of tables in which every balance is what the
\* log says and no record is a transfer to oneself, so that no other defect
\* of the handlers is involved.)
HistoryNewestFirst ==
    \A p \in Procs :
      (pc[p] = "d_transactions" /\ LogCompleteness /\ SameAccountTransferFails) =>
        \A rows \in DashboardRows(p) :
            /\ {rows[i] : i \in DOMAIN rows}
                  = {k \in DOMAIN transactions :
                        \/ transactions[k].sender_id = session[p].user_id
                        \/ transactions[k].receiver_id = session[p].user_id}
            /\ \A i, j \in DOMAIN rows : i < j => rows[i] > rows[j]

\* C20: admin credits are issued by the admin only.  The handle 'admin'
\* belongs to one account, the one created at startup (id AdminId), whatever
\* is registered later; a session whose username is 'admin' is a session of
\* that account, established by a login with its handle and password; and a
\* handler is inside the admin endpoint's credit, or commits one, only for a
\* client with such a session.
OnlyAdminCredits ==
    [][/\ \A i \in DOMAIN users' : users'[i].username = AdminName <=> i = AdminId
       /\ \A p \in Procs :
             /\ session'[p].username = AdminName => session'[p].user_id = AdminId
             /\ (session'[p].username = AdminName /\ session'[p] # session[p])
                  => /\ Login(p, AdminName, users[AdminId].password)
                     /\ flashed' = "none"
             /\ (pc'[p] \in AdminPending \cup {"a_email"} \/ AdminCommits(p))
                  => /\ session[p] = [user_id |-> AdminId, username |-> AdminName]
                     /\ session'[p] = session[p]]_vars

\* alice is registered and logged in, the admin has credited an account, and
\* the last request, one to register or to use the admin endpoint, was refused
OnlyAdminCreditsWitness ==
    /\ Len(users) = 2
    /\ \E p \in Procs : session[p].username = "alice"
    /\ \E k \in DOMAIN transactions : transactions[k].sender_id = NoSender
    /\ flashed \in {"denied", "duplicate"}

====
